---- MODULE Spec2Model ----
(***************************************************************************)
(* Model of the MarianMT -> ONNX conversion pipeline:                      *)
(*   src/src/onnx.py            class OnnxConverter                        *)
(*   src/run_onnx_converter.py  the __main__ driver                        *)
(*                                                                         *)
(* The pipeline is a straight-line program.  Its state is the artifact     *)
(* store (the files under onnx/), what each export declared (input names,  *)
(* output names, dynamic axes), what each verification fed to the eager    *)
(* module and to the exported graph, and the position of the driver.       *)
(* Every external call (torch.onnx.export, onnxruntime.InferenceSession,   *)
(* session.run, numpy's assert_allclose, onnx.load, quantize,              *)
(* onnx.save_model, the eager call itself) either returns or raises;       *)
(* a raised exception is caught nowhere in the source, so it ends the run. *)
(***************************************************************************)
EXTENDS Integers, Sequences, FiniteSets, TLC

VARIABLES
    num_decoder_layers, \* self.num_decoder_layers (onnx.py:39)
    pc,                 \* index of the next step of the driver
    error,              \* the exception that ended the run, or NoError
    files,              \* artifact store: path -> sequence of writers
    reads,              \* every file read so far: [by, role, path]
    input_names,        \* role -> input_names= given to torch.onnx.export
    output_names,       \* role -> output_names= given to torch.onnx.export
    dynamic_axes,       \* role -> dynamic_axes= given to torch.onnx.export
    eager_inputs,       \* role -> positional inputs of the eager call
    onnx_inputs,        \* role -> dict fed to onnx_session.run
    mismatch,           \* roles whose eager and graph outputs disagreed
    verified,           \* roles whose assert_allclose passed
    loaded,             \* roles whose optimized model is loaded in memory
    quantized           \* roles whose quantized model is held in memory

vars == << num_decoder_layers, pc, error, files, reads, input_names,
           output_names, dynamic_axes, eager_inputs, onnx_inputs,
           mismatch, verified, loaded, quantized >>

\* Largest number of decoder layers of a model handed to the converter.
MaxLayers == 6

Roles == << "encoder", "decoder", "decoder_pkv", "lm_head" >>

RoleSet == { Roles[i] : i \in 1..Len(Roles) }

NoError == [class |-> "none", role |-> "none"]

----------------------------------------------------------------------------
(* Python list and dict helpers.                                           *)

Min(a, b) == IF a <= b THEN a ELSE b

\* [x] * n
Replicate(x, n) == [i \in 1..n |-> x]

\* functools.reduce(operator.iconcat, tuples, [])
RECURSIVE Flatten(_)
Flatten(tuples) ==
    IF tuples = << >> THEN << >>
    ELSE Head(tuples) \o Flatten(Tail(tuples))

\* dict(zip(keys, values)): zip stops at the shorter list, and a key that
\* occurs twice keeps the value of its last occurrence.
DictZip(keys, values) ==
    LET n == Min(Len(keys), Len(values))
        last(k) == CHOOSE i \in 1..n :
                      /\ keys[i] = k
                      /\ \A j \in 1..n : keys[j] = k => j <= i
    IN  [k \in { keys[i] : i \in 1..n } |-> values[last(k)]]

\* d.pop(k)
DictPop(d, k) == [x \in (DOMAIN d) \ {k} |-> d[x]]

Range(s) == { s[i] : i \in 1..Len(s) }

----------------------------------------------------------------------------
(* Port names and axis bindings, per conversion method.                    *)

dyax_gen == (0 :> "batch_size" @@ 1 :> "seq_length")

dyax_pkv == (0 :> "batch_size" @@ 2 :> "seq_length")

\* f"pkv_{i}" for i in range(n)
PkvNames(n) == [k \in 1..n |-> "pkv_" \o ToString(k - 1)]

\* ---- _convert_encoder

encoder_inputs == << "encoder_input", "padding_mask" >>

encoder_input_names == << "input_ids", "attention_mask" >>

encoder_output_names == << "output" >>

encoder_params_names == encoder_input_names \o encoder_output_names

encoder_size_axes == Replicate(dyax_gen, Len(encoder_params_names))

\* ---- _convert_decoder

\* range(24) of the comprehension naming the cache outputs
NoCachePkvCount == 24

\* the two repeat counts of size_axes
NoCacheGenAxes == 4

NoCachePkvAxes == 24

decoder_inputs == << "decoder_input", "encoder_hidden_states", "encoder_mask" >>

decoder_input_names ==
    << "input_ids", "encoder_hidden_states", "encoder_attention_mask" >>

decoder_output_names == << "output" >> \o PkvNames(NoCachePkvCount)

decoder_params_names == decoder_input_names \o decoder_output_names

\* faulty variant: the repeat counts off by one, 3 and 25
decoder_size_axes_shifted ==
    Replicate(dyax_gen, NoCacheGenAxes - 1) \o Replicate(dyax_pkv, NoCachePkvAxes + 1)

\* [{0: batch_size, 1: seq_length}]*4 + [{0: batch_size, 2: seq_length}]*24
decoder_size_axes ==
    Replicate(dyax_gen, NoCacheGenAxes) \o Replicate(dyax_pkv, NoCachePkvAxes)

\* ---- _convert_decoder_pkv

past_key_values(L) == Replicate(<< "pkv", "pkv", "pkv", "pkv" >>, L)

flat_past_key_values(L) == Flatten(past_key_values(L))

names_past_key_values(L) == PkvNames(Len(flat_past_key_values(L)))

decoder_inputs_raw == << "decoder_input", "encoder_hidden_states", "encoder_mask" >>

decoder_pkv_inputs(L) == decoder_inputs_raw \o flat_past_key_values(L)

decoder_pkv_input_names(L) ==
    << "input_ids", "encoder_hidden_states", "encoder_attention_mask" >>
        \o names_past_key_values(L)

\* faulty variant: the parity of i itself, not of its pair
ReusesInputName_parity(i) == i % 2 /= 0

\* the test (i//2)%2 != 0 on the flattened cache index i
ReusesInputName(i) == (i \div 2) % 2 /= 0

decoder_pkv_output_names(L) ==
    << "output" >> \o
    [k \in 1..Len(names_past_key_values(L)) |->
        IF ReusesInputName(k - 1)
        THEN names_past_key_values(L)[k]
        ELSE names_past_key_values(L)[k] \o "o"]

decoder_param_names(L) == decoder_pkv_input_names(L) \o decoder_pkv_output_names(L)

\* faulty variant: the entry of the `output` port left out
dyax_no_output(L) ==
    Replicate(dyax_gen, Len(decoder_inputs_raw))
        \o Replicate(dyax_pkv, Len(flat_past_key_values(L)))
        \o Replicate(dyax_pkv, Len(flat_past_key_values(L)))

dyax(L) ==
    Replicate(dyax_gen, Len(decoder_inputs_raw))
        \o Replicate(dyax_pkv, Len(flat_past_key_values(L)))
        \o << dyax_gen >>
        \o Replicate(dyax_pkv, Len(flat_past_key_values(L)))

\* ---- _convert_lm_head

lm_head_inputs == << "lm_head_input" >>

lm_head_input_name == << "input" >>

lm_head_output_name == << "output" >>

lm_head_params_name == lm_head_input_name \o lm_head_output_name

lm_head_size_axes == Replicate(dyax_gen, Len(lm_head_params_name))

----------------------------------------------------------------------------
(* What each method passes to the eager call, to torch.onnx.export and to  *)
(* onnx_session.run.                                                       *)

ExampleInputs(r, L) ==
    CASE r = "encoder"     -> encoder_inputs
      [] r = "decoder"     -> decoder_inputs
      [] r = "decoder_pkv" -> decoder_pkv_inputs(L)
      [] r = "lm_head"     -> lm_head_inputs

ExportInputNames(r, L) ==
    CASE r = "encoder"     -> encoder_input_names
      [] r = "decoder"     -> decoder_input_names
      [] r = "decoder_pkv" -> decoder_pkv_input_names(L)
      [] r = "lm_head"     -> lm_head_input_name

ExportOutputNames(r, L) ==
    CASE r = "encoder"     -> encoder_output_names
      [] r = "decoder"     -> decoder_output_names
      [] r = "decoder_pkv" -> decoder_pkv_output_names(L)
      [] r = "lm_head"     -> lm_head_output_name

ExportDynamicAxes(r, L) ==
    CASE r = "encoder"     -> DictZip(encoder_params_names, encoder_size_axes)
      [] r = "decoder"     -> DictZip(decoder_params_names, decoder_size_axes)
      [] r = "decoder_pkv" -> DictZip(decoder_param_names(L), dyax(L))
      [] r = "lm_head"     -> DictZip(lm_head_params_name, lm_head_size_axes)

\* dict(zip(decoder_input_names, [arr.numpy() for arr in decoder_inputs]))
decoder_pkv_onnx_inputs_all(L) ==
    DictZip(decoder_pkv_input_names(L), decoder_pkv_inputs(L))

\* faulty variant: the attention mask popped as well
decoder_pkv_onnx_inputs_no_mask(L) ==
    DictPop(DictPop(decoder_pkv_onnx_inputs_all(L), "encoder_hidden_states"),
            "encoder_attention_mask")

\* onnx_inputs.pop('encoder_hidden_states')
decoder_pkv_onnx_inputs(L) ==
    DictPop(decoder_pkv_onnx_inputs_all(L), "encoder_hidden_states")

SessionInputs(r, L) ==
    CASE r = "encoder"     -> DictZip(encoder_input_names, encoder_inputs)
      [] r = "decoder"     -> DictZip(decoder_input_names, decoder_inputs)
      [] r = "decoder_pkv" -> decoder_pkv_onnx_inputs(L)
      [] r = "lm_head"     -> ("input" :> "lm_head_input")

\* faulty variant: the comparison never raises
assert_allclose_silent(close) == FALSE

\* np.testing.assert_allclose raises exactly when the outputs are not close

assert_allclose_raises(close) == ~close

----------------------------------------------------------------------------
(* File names, one operator per place the source spells them.              *)

\* the file torch.onnx.export writes
export_path(r) ==
    CASE r = "encoder"     -> "onnx/encoder.onnx"
      [] r = "decoder"     -> "onnx/decoder.onnx"
      [] r = "decoder_pkv" -> "onnx/decoder_pkv.onnx"
      [] r = "lm_head"     -> "onnx/lm_head.onnx"

\* the file the verifying InferenceSession opens
session_path(r) ==
    CASE r = "encoder"     -> "onnx/encoder.onnx"
      [] r = "decoder"     -> "onnx/decoder.onnx"
      [] r = "decoder_pkv" -> "onnx/decoder_pkv.onnx"
      [] r = "lm_head"     -> "onnx/lm_head.onnx"

\* the file the optimizing InferenceSession opens
optimize_input_path(r) ==
    CASE r = "encoder"     -> "onnx/encoder.onnx"
      [] r = "decoder"     -> "onnx/decoder.onnx"
      [] r = "decoder_pkv" -> "onnx/decoder_pkv.onnx"
      [] r = "lm_head"     -> "onnx/lm_head.onnx"

\* faulty variant: the last path pasted from the line above it
optimized_model_filepath_pasted(r) ==
    CASE r = "encoder"     -> "onnx/encoder.opt.onnx"
      [] r = "decoder"     -> "onnx/decoder.opt.onnx"
      [] r = "decoder_pkv" -> "onnx/decoder_pkv.opt.onnx"
      [] r = "lm_head"     -> "onnx/decoder_pkv.opt.onnx"

\* sess_options.optimized_model_filepath
optimized_model_filepath(r) ==
    CASE r = "encoder"     -> "onnx/encoder.opt.onnx"
      [] r = "decoder"     -> "onnx/decoder.opt.onnx"
      [] r = "decoder_pkv" -> "onnx/decoder_pkv.opt.onnx"
      [] r = "lm_head"     -> "onnx/lm_head.opt.onnx"

\* the file onnx.load opens
load_path(r) ==
    CASE r = "encoder"     -> "onnx/encoder.opt.onnx"
      [] r = "decoder"     -> "onnx/decoder.opt.onnx"
      [] r = "decoder_pkv" -> "onnx/decoder_pkv.opt.onnx"
      [] r = "lm_head"     -> "onnx/lm_head.opt.onnx"

\* the file onnx.save_model writes
save_path(r) ==
    CASE r = "encoder"     -> "onnx/encoder.opt.quant.onnx"
      [] r = "decoder"     -> "onnx/decoder.opt.quant.onnx"
      [] r = "decoder_pkv" -> "onnx/decoder_pkv.opt.quant.onnx"
      [] r = "lm_head"     -> "onnx/lm_head.opt.quant.onnx"

AllPaths ==
    UNION { { export_path(r), session_path(r), optimize_input_path(r),
              optimized_model_filepath(r), load_path(r), save_path(r) }
            : r \in RoleSet }

Exists(p) == Len(files[p]) > 0

----------------------------------------------------------------------------
(* The driver: the order of the calls.                                     *)

Steps(op, order) == [i \in 1..Len(order) |-> [op |-> op, role |-> order[i]]]

\* one _convert_* method: the eager call, the export, the verification
ConvertSteps(r) ==
    << [op |-> "eager", role |-> r],
       [op |-> "export", role |-> r],
       [op |-> "verify", role |-> r] >>

convert_to_onnx ==
    ConvertSteps("encoder") \o ConvertSteps("decoder")
        \o ConvertSteps("decoder_pkv") \o ConvertSteps("lm_head")

optimize_onnx_model == Steps("optimize", Roles)

quantize_onnx_model ==
    Steps("load", Roles) \o Steps("quantize", Roles) \o Steps("save", Roles)

\* faulty variant: the quantizer called before the optimizer
main_quantize_first == convert_to_onnx \o quantize_onnx_model \o optimize_onnx_model

\* converter.convert_to_onnx(); .optimize_onnx_model(); .quantize_onnx_model()
main == convert_to_onnx \o optimize_onnx_model \o quantize_onnx_model

Done == pc = Len(main) + 1

Running == error = NoError /\ ~Done

At(op) == Running /\ main[pc].op = op

Raise(class, r) ==
    /\ error' = [class |-> class, role |-> r]
    /\ pc' = pc

----------------------------------------------------------------------------

Init ==
    /\ num_decoder_layers \in 1..MaxLayers
    /\ pc = 1
    /\ error = NoError
    /\ files = [p \in AllPaths |-> << >>]
    /\ reads = {}
    /\ input_names = [r \in RoleSet |-> << >>]
    /\ output_names = [r \in RoleSet |-> << >>]
    /\ dynamic_axes = [r \in RoleSet |-> << >>]
    /\ eager_inputs = [r \in RoleSet |-> << >>]
    /\ onnx_inputs = [r \in RoleSet |-> << >>]
    /\ mismatch = {}
    /\ verified = {}
    /\ loaded = {}
    /\ quantized = {}

\* self.<module>(*inputs) under torch.no_grad(): returns, or raises
Eager ==
    /\ At("eager")
    /\ LET r == main[pc].role IN
        /\ eager_inputs' =
              [eager_inputs EXCEPT ![r] = ExampleInputs(r, num_decoder_layers)]
        /\ \E ok \in BOOLEAN :
              IF ok
              THEN pc' = pc + 1 /\ UNCHANGED error
              ELSE Raise("EagerFailure", r)
    /\ UNCHANGED << num_decoder_layers, files, reads, input_names,
                    output_names, dynamic_axes, onnx_inputs, mismatch,
                    verified, loaded, quantized >>

\* torch.onnx.export(module, inputs, path, input_names=, output_names=,
\* dynamic_axes=): writes the raw artifact, or raises
Export ==
    /\ At("export")
    /\ LET r == main[pc].role IN
       \E ok \in BOOLEAN :
          IF ok
          THEN /\ files' = [files EXCEPT ![export_path(r)] =
                               Append(@, [stage |-> "raw", role |-> r])]
               /\ input_names' = [input_names EXCEPT ![r] =
                               ExportInputNames(r, num_decoder_layers)]
               /\ output_names' = [output_names EXCEPT ![r] =
                               ExportOutputNames(r, num_decoder_layers)]
               /\ dynamic_axes' = [dynamic_axes EXCEPT ![r] =
                               ExportDynamicAxes(r, num_decoder_layers)]
               /\ pc' = pc + 1
               /\ UNCHANGED error
          ELSE /\ Raise("TraceExportFailure", r)
               /\ UNCHANGED << files, input_names, output_names, dynamic_axes >>
    /\ UNCHANGED << num_decoder_layers, reads, eager_inputs, onnx_inputs,
                    mismatch, verified, loaded, quantized >>

\* onnx_session = onnxruntime.InferenceSession(path)     may raise
\* onnx_inputs = dict(zip(names, inputs)) [, pop]
\* onnx_outputs = onnx_session.run(None, onnx_inputs)     may raise
\* np.testing.assert_allclose(eager, graph, rtol=1e-03, atol=1e-05)
Verify ==
    /\ At("verify")
    /\ LET r == main[pc].role IN
        /\ reads' = reads \cup
              { [by |-> "verify", role |-> r, path |-> session_path(r)] }
        /\ \E session_ok \in BOOLEAN :
              IF ~(session_ok /\ Exists(session_path(r)))
              THEN /\ Raise("SessionFailure", r)
                   /\ UNCHANGED << onnx_inputs, mismatch, verified >>
              ELSE /\ onnx_inputs' = [onnx_inputs EXCEPT ![r] =
                                        SessionInputs(r, num_decoder_layers)]
                   /\ \E run_ok \in BOOLEAN :
                         IF ~run_ok
                         THEN /\ Raise("RunFailure", r)
                              /\ UNCHANGED << mismatch, verified >>
                         ELSE \E close \in BOOLEAN :
                                 /\ mismatch' = IF close THEN mismatch
                                                ELSE mismatch \cup {r}
                                 /\ IF assert_allclose_raises(close)
                                    THEN /\ Raise("VerificationMismatch", r)
                                         /\ UNCHANGED verified
                                    ELSE /\ verified' = verified \cup {r}
                                         /\ pc' = pc + 1
                                         /\ UNCHANGED error
    /\ UNCHANGED << num_decoder_layers, files, input_names, output_names,
                    dynamic_axes, eager_inputs, loaded, quantized >>

\* sess_options.optimized_model_filepath = <opt path>
\* _ = onnxruntime.InferenceSession(<raw path>, sess_options)
Optimize ==
    /\ At("optimize")
    /\ LET r == main[pc].role IN
        /\ reads' = reads \cup
              { [by |-> "optimize", role |-> r, path |-> optimize_input_path(r)] }
        /\ \E ok \in BOOLEAN :
              IF ok /\ Exists(optimize_input_path(r))
              THEN /\ files' = [files EXCEPT ![optimized_model_filepath(r)] =
                                   Append(@, [stage |-> "optimized", role |-> r])]
                   /\ pc' = pc + 1
                   /\ UNCHANGED error
              ELSE /\ Raise("OptimizationFailure", r)
                   /\ UNCHANGED files
    /\ UNCHANGED << num_decoder_layers, input_names, output_names,
                    dynamic_axes, eager_inputs, onnx_inputs, mismatch,
                    verified, loaded, quantized >>

\* <role> = onnx.load(<opt path>)
Load ==
    /\ At("load")
    /\ LET r == main[pc].role IN
        /\ reads' = reads \cup
              { [by |-> "quantize", role |-> r, path |-> load_path(r)] }
        /\ \E ok \in BOOLEAN :
              IF ok /\ Exists(load_path(r))
              THEN /\ loaded' = loaded \cup {r}
                   /\ pc' = pc + 1
                   /\ UNCHANGED error
              ELSE /\ Raise("LoadFailure", r)
                   /\ UNCHANGED loaded
    /\ UNCHANGED << num_decoder_layers, files, input_names, output_names,
                    dynamic_axes, eager_inputs, onnx_inputs, mismatch,
                    verified, quantized >>

\* <role>_quant = quantize(model=<role>, ...)
Quantize ==
    /\ At("quantize")
    /\ LET r == main[pc].role IN
       \E ok \in BOOLEAN :
          IF ok
          THEN /\ quantized' = quantized \cup {r}
               /\ pc' = pc + 1
               /\ UNCHANGED error
          ELSE /\ Raise("QuantizationFailure", r)
               /\ UNCHANGED quantized
    /\ UNCHANGED << num_decoder_layers, files, reads, input_names,
                    output_names, dynamic_axes, eager_inputs, onnx_inputs,
                    mismatch, verified, loaded >>

\* onnx.save_model(<role>_quant, <quant path>): writes the file, or raises
Save ==
    /\ At("save")
    /\ LET r == main[pc].role IN
       \E ok \in BOOLEAN :
          IF ok
          THEN /\ files' = [files EXCEPT ![save_path(r)] =
                               Append(@, [stage |-> "quantized", role |-> r])]
               /\ pc' = pc + 1
               /\ UNCHANGED error
          ELSE /\ Raise("SaveFailure", r)
               /\ UNCHANGED files
    /\ UNCHANGED << num_decoder_layers, reads, input_names, output_names,
                    dynamic_axes, eager_inputs, onnx_inputs, mismatch,
                    verified, loaded, quantized >>

Next ==
    \/ Eager
    \/ Export
    \/ Verify
    \/ Optimize
    \/ Load
    \/ Quantize
    \/ Save

Spec == Init /\ [][Next]_vars

----------------------------------------------------------------------------
(* Vocabulary of the properties.                                           *)

Exported(r) == output_names[r] /= << >>

\* axis 0 is the batch, axis 1 the sequence
BatchSeq1 == (0 :> "batch_size" @@ 1 :> "seq_length")

\* axis 0 is the batch, axis 2 the sequence
BatchSeq2 == (0 :> "batch_size" @@ 2 :> "seq_length")

PortNames(r) == Range(input_names[r]) \cup Range(output_names[r])

Bound(r, n, axes) == n \in DOMAIN dynamic_axes[r] /\ dynamic_axes[r][n] = axes

QueryPorts ==
    { "input_ids", "encoder_hidden_states", "encoder_attention_mask", "output" }

\* the name of cache port i
CachePort(i) == "pkv_" \o ToString(i)

\* the roles that come after role number k
LaterRoles(k) == { Roles[j] : j \in (k + 1)..Len(Roles) }

EarlierRoles(k) == { Roles[j] : j \in 1..(k - 1) }

RoleIndex(r) == CHOOSE k \in 1..Len(Roles) : Roles[k] = r

\* the artifact layout: <role>, <role>.opt, <role>.opt.quant
ArtifactPath(stage, r) ==
    "onnx/" \o r \o
    (CASE stage = "raw"       -> ".onnx"
       [] stage = "optimized" -> ".opt.onnx"
       [] stage = "quantized" -> ".opt.quant.onnx")

Stages == { "raw", "optimized", "quantized" }

----------------------------------------------------------------------------
\* C1: in the cached decoder export, with the 4L cache ports laid out
\* layer-major as (self_key, self_value, cross_key, cross_value), the input
\* cache port i is named pkv_i; the output port at a self-attention position
\* (i mod 4 in {0,1}) has a name different from pkv_i, and the output port at
\* a cross-attention position (i mod 4 in {2,3}) is named exactly pkv_i.
C1_SelfRenamedCrossReused ==
    Exported("decoder_pkv") =>
        LET L    == num_decoder_layers
            ins  == input_names["decoder_pkv"]
            outs == output_names["decoder_pkv"]
        IN  /\ Len(ins) = 3 + 4 * L
            /\ Len(outs) = 1 + 4 * L
            /\ \A l \in 0..(L - 1) : \A m \in 0..3 :
                  LET i == 4 * l + m IN
                  /\ ins[3 + i + 1] = CachePort(i)
                  /\ (m \in {0, 1} => outs[1 + i + 1] /= CachePort(i))
                  /\ (m \in {2, 3} => outs[1 + i + 1] = CachePort(i))

C1_Witness == Exported("decoder_pkv") /\ num_decoder_layers >= 2

\* C2: for every L the no-cache decoder export declares the outputs `output`
\* followed by exactly the 4L cache ports pkv_0 .. pkv_{4L-1}, the same names,
\* in the same number, as the cache input ports of the cached decoder export.
C2_CachePortsAgree ==
    /\ Exported("decoder") =>
          output_names["decoder"] =
              << "output" >> \o [k \in 1..(4 * num_decoder_layers) |-> CachePort(k - 1)]
    /\ (Exported("decoder") /\ Exported("decoder_pkv")) =>
          Tail(output_names["decoder"]) =
              SubSeq(input_names["decoder_pkv"], 4, Len(input_names["decoder_pkv"]))

\* C3 as stated: in the encoder export and in the no-cache decoder export
\* every declared port, the cache outputs included, binds axis 0 to
\* batch_size and axis 1 to seq_length and nothing else.
C3_AllPortsBatchSeq1 ==
    \A r \in { "encoder", "decoder" } :
        Exported(r) => \A n \in PortNames(r) : Bound(r, n, BatchSeq1)

\* C3 as amended: every encoder port and the four non-cache ports of the
\* no-cache decoder bind axes 0 and 1; every cache output port the no-cache
\* decoder declares binds axis 0 to batch_size and axis 2 to seq_length; no
\* declared port is left unbound.
C3_QueryPortsAxis1CachePortsAxis2 ==
    /\ Exported("encoder") =>
          \A n \in PortNames("encoder") : Bound("encoder", n, BatchSeq1)
    /\ Exported("decoder") =>
          /\ QueryPorts \subseteq PortNames("decoder")
          /\ \A n \in PortNames("decoder") :
                IF n \in QueryPorts
                THEN Bound("decoder", n, BatchSeq1)
                ELSE Bound("decoder", n, BatchSeq2)

C3_Witness == Exported("encoder") /\ Exported("decoder")

\* C4: in the cached decoder export the four non-cache ports bind axes 0 and
\* 1, every cache port (input or output, suffixed or reused name) binds axes
\* 0 and 2, every declared name has a binding and nothing else has one.
C4_CachedDecoderAxes ==
    Exported("decoder_pkv") =>
        LET L == num_decoder_layers
            cacheIn  == { input_names["decoder_pkv"][k] : k \in 4..(3 + 4 * L) }
            cacheOut == { output_names["decoder_pkv"][k] : k \in 2..(1 + 4 * L) }
        IN  /\ DOMAIN dynamic_axes["decoder_pkv"] = PortNames("decoder_pkv")
            /\ PortNames("decoder_pkv") = QueryPorts \cup cacheIn \cup cacheOut
            /\ QueryPorts \cap (cacheIn \cup cacheOut) = {}
            /\ \A n \in QueryPorts : Bound("decoder_pkv", n, BatchSeq1)
            /\ \A n \in cacheIn \cup cacheOut : Bound("decoder_pkv", n, BatchSeq2)

C4_Witness ==
    /\ Exported("decoder_pkv")
    /\ num_decoder_layers >= 2
    /\ \E n \in Range(input_names["decoder_pkv"]) :
          n \in Range(output_names["decoder_pkv"])

\* C5: once the verification of a role found the eager and the graph output
\* to disagree, nothing later happens: no later role is exported or
\* verified, the optimizer and the quantizer read and write nothing.
C5_MismatchHalts ==
    \A r \in mismatch :
        /\ error = [class |-> "VerificationMismatch", role |-> r]
        /\ r \notin verified
        /\ \A q \in LaterRoles(RoleIndex(r)) :
              /\ ~Exists(export_path(q))
              /\ ~Exported(q)
              /\ q \notin verified
        /\ \A q \in RoleSet :
              /\ ~Exists(optimized_model_filepath(q))
              /\ ~Exists(save_path(q))
        /\ \A rd \in reads : rd.by = "verify"
        /\ loaded = {} /\ quantized = {}

C5_Witness == "decoder" \in mismatch

\* C6: when the optimization of one role fails the run goes on: the
\* optimized and the quantized artifacts of the other three roles exist when
\* the run has ended.
C6_OptimizationFailureIsolated ==
    error.class = "OptimizationFailure" =>
        \A q \in RoleSet \ {error.role} :
            /\ Exists(ArtifactPath("optimized", q))
            /\ Exists(ArtifactPath("quantized", q))

\* C7: when loading or quantizing one role fails in quantize_onnx_model, the
\* quantized artifacts of the other three roles exist when the run has ended.
C7_QuantizationFailureIsolated ==
    error.class \in { "LoadFailure", "QuantizationFailure" } =>
        \A q \in RoleSet \ {error.role} : Exists(ArtifactPath("quantized", q))

\* C8: the stages run in a fixed order.  While role k is being converted,
\* every earlier role is exported and verified and no later role has been
\* touched; a role is exported after its eager run and verified after its
\* export; the optimizer runs only when all four raw artifacts are exported
\* and verified; the quantizer only when all four optimized artifacts are
\* written; an artifact of a later stage never exists before the stage
\* before it is complete.
C8_StageOrder ==
    /\ \A k \in 1..Len(Roles) :
          (Running /\ main[pc].op \in { "eager", "export", "verify" }
                   /\ main[pc].role = Roles[k]) =>
              /\ \A q \in EarlierRoles(k) :
                    Exists(ArtifactPath("raw", q)) /\ q \in verified
              /\ \A q \in LaterRoles(k) :
                    /\ ~Exists(ArtifactPath("raw", q))
                    /\ eager_inputs[q] = << >>
                    /\ q \notin verified
              /\ Roles[k] \notin verified
              /\ main[pc].op = "eager" => ~Exists(ArtifactPath("raw", Roles[k]))
              /\ main[pc].op = "export" =>
                    /\ eager_inputs[Roles[k]] /= << >>
                    /\ ~Exists(ArtifactPath("raw", Roles[k]))
              /\ main[pc].op = "verify" => Exists(ArtifactPath("raw", Roles[k]))
              /\ \A q \in RoleSet :
                    /\ ~Exists(ArtifactPath("optimized", q))
                    /\ ~Exists(ArtifactPath("quantized", q))
    /\ (Running /\ main[pc].op = "optimize") =>
          /\ verified = RoleSet
          /\ \A q \in RoleSet : Exists(ArtifactPath("raw", q))
          /\ \A q \in RoleSet : ~Exists(ArtifactPath("quantized", q))
          /\ loaded = {}
    /\ (Running /\ main[pc].op \in { "load", "quantize", "save" }) =>
          /\ verified = RoleSet
          /\ \A q \in RoleSet : Exists(ArtifactPath("optimized", q))
    /\ (\E q \in RoleSet : Exists(ArtifactPath("optimized", q))) =>
          /\ verified = RoleSet
          /\ \A q \in RoleSet : Exists(ArtifactPath("raw", q))
    /\ (loaded /= {} \/ \E q \in RoleSet : Exists(ArtifactPath("quantized", q))) =>
          \A q \in RoleSet : Exists(ArtifactPath("optimized", q))

C8_Witness == Running /\ main[pc].op = "save"

\* C9: no artifact is ever written twice, each file is written only by the
\* stage and role it belongs to, the optimizer reads only the raw artifact
\* and the quantizer only the optimized artifact of the role it works on
\* (the verifier only the raw artifact of the role just exported), every
\* file read was written by that stage of that role, and a run that ends
\* without failure leaves exactly the 12 artifacts.
C9_ArtifactsWrittenOnce ==
    /\ \A p \in AllPaths :
          /\ Len(files[p]) <= 1
          /\ \A k \in 1..Len(files[p]) :
                p = ArtifactPath(files[p][k].stage, files[p][k].role)
    /\ \A rd \in reads :
          LET from == CASE rd.by = "verify"   -> "raw"
                        [] rd.by = "optimize" -> "raw"
                        [] rd.by = "quantize" -> "optimized"
          IN  /\ rd.path = ArtifactPath(from, rd.role)
              /\ files[rd.path] = << [stage |-> from, role |-> rd.role] >>
    /\ Done =>
          /\ \A st \in Stages : \A q \in RoleSet :
                files[ArtifactPath(st, q)] = << [stage |-> st, role |-> q] >>
          /\ Cardinality({ p \in AllPaths : Exists(p) }) = 12

C9_Witness == Done /\ error = NoError

\* C10 as stated: for every role the named inputs fed to the exported graph
\* are exactly the role's declared input ports, each bound to the tensor
\* the eager call received at that position.
C10_GraphFedAllDeclaredInputs ==
    \A r \in RoleSet :
        onnx_inputs[r] /= << >> =>
            /\ DOMAIN onnx_inputs[r] = Range(input_names[r])
            /\ Len(eager_inputs[r]) = Len(input_names[r])
            /\ \A k \in 1..Len(input_names[r]) :
                  onnx_inputs[r][input_names[r][k]] = eager_inputs[r][k]

\* C10 as amended: that holds for the encoder, the no-cache decoder and the
\* projection head; for the cached decoder the graph is fed every declared
\* input port except encoder_hidden_states, each bound to the tensor the
\* eager call received at that position.
C10_GraphFedDeclaredInputsButHidden ==
    \A r \in RoleSet :
        onnx_inputs[r] /= << >> =>
            LET dropped == IF r = "decoder_pkv"
                           THEN { "encoder_hidden_states" } ELSE {}
            IN  /\ DOMAIN onnx_inputs[r] = Range(input_names[r]) \ dropped
                /\ dropped \subseteq Range(input_names[r])
                /\ Len(eager_inputs[r]) = Len(input_names[r])
                /\ \A k \in 1..Len(input_names[r]) :
                      input_names[r][k] \notin dropped =>
                          onnx_inputs[r][input_names[r][k]] = eager_inputs[r][k]

C10_Witness == verified = RoleSet /\ num_decoder_layers >= 2

====
